---- MODULE Spec2Model ----
(***************************************************************************)
(* Model of orchestrator/workflows/agent_saga.py: the SagaContext          *)
(* (compensation stack, execute_with_compensation, rollback) and the       *)
(* AgentWorkflow controller (event log, derived state, plan execution,     *)
(* success / failure finalisation).                                        *)
(*                                                                         *)
(* Two specifications share the state:                                     *)
(*   Spec      one run of AgentWorkflow.run, from construction to the      *)
(*             terminal event, over every plan and every activity outcome  *)
(*             within the bounds;                                          *)
(*   SagaSpec  a SagaContext driven directly through its two public        *)
(*             methods, one call at a time, in any order.                  *)
(*                                                                         *)
(* Python values: None is the string "None"; a str that the code inspects  *)
(* (a compensation-input value) is a record [kind |-> "str", toks |-> s]   *)
(* with s its sequence of tokens, so that startswith and replace are       *)
(* computed; a dict is a function from its keys.                           *)
(***************************************************************************)
EXTENDS Integers, Sequences, FiniteSets, TLC

VARIABLES
    pc,                  \* position of the running coroutine
    events,              \* AgentWorkflow.events
    goal,                \* AgentWorkflow.goal
    user_id,             \* AgentWorkflow.user_id
    plan_id,             \* AgentWorkflow.plan_id
    plan_steps,          \* AgentWorkflow.plan_steps
    step_results,        \* AgentWorkflow.step_results
    failed_step_id,      \* AgentWorkflow.failed_step_id
    compensation_stack,  \* SagaContext.compensation_stack
    rollback_executed,   \* SagaContext.rollback_executed
    idx,                 \* _execute_plan: loop index
    call,                \* execute_with_compensation: its arguments
    result,              \* the caller's local receiving the activity result
    error_message,       \* str(e) of the exception being propagated
    cached_plan,         \* run: cached_plan
    results,             \* rollback: its local list of results
    compensation_results,\* the caller's local receiving rollback's return
    workflow_result,     \* run: the dict returned / raised as details
    activity_log,        \* every _execute_activity invocation, in order
    rollback_calls,      \* number of calls of SagaContext.rollback so far
    collaborator_log     \* the cache lookups and planning calls made by run

vars == << pc, events, goal, user_id, plan_id, plan_steps, step_results,
           failed_step_id, compensation_stack, rollback_executed, idx, call,
           result, error_message, cached_plan, collaborator_log, results,
           compensation_results, workflow_result, activity_log,
           rollback_calls, collaborator_log >>

wfVars == << events, goal, user_id, plan_id, plan_steps, step_results,
             failed_step_id, idx, cached_plan, collaborator_log, workflow_result >>

(***************************************************************************)
(* Bounds of the model.                                                    *)
(***************************************************************************)
MaxSteps == 3
MaxSagaCalls == 3
MaxRollbackCalls == 2

(***************************************************************************)
(* Python values.                                                          *)
(***************************************************************************)
None == "None"
EmptyDict == << >>
\* an Optional[dict] that is None; `if cached_plan:` and `result if result
\* else None` treat None and the empty dict alike
NoDict == << >>
Str(toks) == [kind |-> "str", toks |-> toks]

\* Python truthiness of an Optional[str]: None and "" are falsy.
Truthy(v) == v \notin {None, ""}

\* the literal "{result." and the literal "}"
ResultPrefix == "{result."
CloseBrace == "}"
Placeholder(field) == Str(<< ResultPrefix, field, CloseBrace >>)

DictGet(d, k, default) == IF k \in DOMAIN d THEN d[k] ELSE default

Last(s) == s[Len(s)]

\* reversed(list)
Reversed(s) == [i \in 1..Len(s) |-> s[Len(s) + 1 - i]]

(***************************************************************************)
(* Inputs: the values the collaborators may deliver.                       *)
(***************************************************************************)
Goals == {"book Paris trip"}
Users == {"u1"}
WorkflowId == "wf-1"
Tools == {"book_flight"}
Compensations == {"cancel_flight"}
\* an explicit id that is also the default id of the step at index 1
ExplicitIds == {"step_1"}

\* compensation_input templates (None and {} behave alike: `or {}`)
TemplateBooking == [booking_id |-> Placeholder("booking_id"), reason |-> Str(<< "rollback" >>)]
Templates == {EmptyDict, TemplateBooking}

\* activity results (dict[str, Any])
ResultBooked == [booking_id |-> Str(<< "BK123" >>)]
ToolResults == {EmptyDict, ResultBooked}
CompensationResult == [cancelled |-> Str(<< "yes" >>)]
ActivityErrorText == "activity failed"
PlanErrorText == "plan generation failed"

\* a plan step: "id", "compensation" and "compensation_input" are optional
\* keys (None: the key is absent); "input" is left out of the step and is
\* the empty dict in every call. compensation_input is read only when a
\* compensation is declared.
PlanStepValues ==
    { s \in [id : {None} \cup ExplicitIds, tool : Tools,
             compensation : {None} \cup Compensations,
             compensation_input : Templates] :
        s.compensation = None => s.compensation_input = EmptyDict }

RECURSIVE SeqsUpTo(_, _)
SeqsUpTo(S, n) ==
    IF n = 0 THEN { << >> }
    ELSE LET shorter == SeqsUpTo(S, n - 1)
         IN  shorter \cup { Append(q, x) : q \in { r \in shorter : Len(r) = n - 1 }, x \in S }

\* the plans of the trip-booking scenario: book_flight compensated by
\* cancel_flight, then book_hotel compensated by cancel_hotel, each step
\* with or without an explicit id and an input template
ScenarioFlightSteps ==
    [id : {None} \cup ExplicitIds, tool : {"book_flight"},
     compensation : {"cancel_flight"}, compensation_input : Templates]
ScenarioHotelSteps ==
    [id : {None} \cup ExplicitIds, tool : {"book_hotel"},
     compensation : {"cancel_hotel"}, compensation_input : Templates]
ScenarioStepLists ==
    { << f, h >> : f \in ScenarioFlightSteps, h \in ScenarioHotelSteps }

Plans == [plan_id : {"plan-1"},
          steps : SeqsUpTo(PlanStepValues, MaxSteps) \cup ScenarioStepLists]
CachedPlans == [plan_id : {"plan-1"}, steps : SeqsUpTo(PlanStepValues, MaxSteps),
                template_id : {"T1"}]
(***************************************************************************)
(* SagaContext.                                                            *)
(***************************************************************************)
CompensationStep(activity_name, input, step_id) ==
    [activity_name |-> activity_name, input |-> input, step_id |-> step_id]

\* one invocation of AgentWorkflow._execute_activity
ActivityCall(activity_name, activity_input, step_id, is_compensation) ==
    [activity_name |-> activity_name, input |-> activity_input,
     step_id |-> step_id, is_compensation |-> is_compensation]

\* the arguments of one execute_with_compensation call
CallArgs(activity_name, activity_input, compensation_activity, compensation_input, step_id) ==
    [activity_name |-> activity_name, activity_input |-> activity_input,
     compensation_activity |-> compensation_activity,
     compensation_input |-> compensation_input, step_id |-> step_id]
NoCall == CallArgs(None, EmptyDict, None, EmptyDict, "")

RECURSIVE Join(_)
Join(toks) == IF toks = << >> THEN "" ELSE Head(toks) \o Join(Tail(toks))

\* value.startswith("{result.")
StartsWithResultPrefix(value) ==
    value.kind = "str" /\ value.toks # << >> /\ Head(value.toks) = ResultPrefix

\* value.replace("{result.", "").replace("}", "")
FieldName(value) ==
    Join(SelectSeq(value.toks, LAMBDA t : t \notin {ResultPrefix, CloseBrace}))

_inject_result_values(compensation_input, res) ==
    [key \in DOMAIN compensation_input |->
        LET value == compensation_input[key]
        IN  IF StartsWithResultPrefix(value)
            THEN DictGet(res, FieldName(value), value)
            ELSE value]

\* a registration that is skipped when the activity returned an empty result
Register_SkipsEmptyResult(stack, args, res) ==
    IF Truthy(args.compensation_activity) /\ res # EmptyDict
    THEN Append(stack, CompensationStep(args.compensation_activity,
                                        _inject_result_values(args.compensation_input, res),
                                        args.step_id))
    ELSE stack

\* a registration that pushes the compensation of a step twice
Register_Twice(stack, args, res) ==
    IF Truthy(args.compensation_activity)
    THEN LET entry == CompensationStep(args.compensation_activity,
                                       _inject_result_values(args.compensation_input, res),
                                       args.step_id)
         IN  Append(Append(stack, entry), entry)
    ELSE stack

\* a registration that stores the template as given, unresolved
Register_StoresTemplate(stack, args, res) ==
    IF Truthy(args.compensation_activity)
    THEN Append(stack, CompensationStep(args.compensation_activity,
                                        args.compensation_input,
                                        args.step_id))
    ELSE stack

\* lines 140-150: the stack after a successful activity
Register(stack, args, res) ==
    IF Truthy(args.compensation_activity)
    THEN Append(stack, CompensationStep(args.compensation_activity,
                                        _inject_result_values(args.compensation_input, res),
                                        args.step_id))
    ELSE stack

\* execute_with_compensation, the activity succeeding with res
execute_with_compensation_returns(res, next) ==
    /\ activity_log' = Append(activity_log,
            ActivityCall(call.activity_name, call.activity_input, call.step_id, FALSE))
    /\ compensation_stack' = Register(compensation_stack, call, res)
    /\ result' = res
    /\ pc' = next
    /\ UNCHANGED << rollback_executed, error_message, results,
                    compensation_results, rollback_calls, call >>

\* an execute_with_compensation that registers the compensation before it
\* runs the activity, so that a failing activity leaves it on the stack
execute_with_compensation_raises_Registered(err, next) ==
    /\ activity_log' = Append(activity_log,
            ActivityCall(call.activity_name, call.activity_input, call.step_id, FALSE))
    /\ compensation_stack' = Register(compensation_stack, call, EmptyDict)
    /\ error_message' = err
    /\ pc' = next
    /\ UNCHANGED << rollback_executed, result, results,
                    compensation_results, rollback_calls, call >>

\* execute_with_compensation, the activity failing after its retries
execute_with_compensation_raises(err, next) ==
    /\ activity_log' = Append(activity_log,
            ActivityCall(call.activity_name, call.activity_input, call.step_id, FALSE))
    /\ error_message' = err
    /\ pc' = next
    /\ UNCHANGED << compensation_stack, rollback_executed, result, results,
                    compensation_results, rollback_calls, call >>

\* a rollback that does not look at the flag
AlreadyRolledBack_Ignored == FALSE
\* line 168
AlreadyRolledBack == rollback_executed

\* a rollback that visits the stack in registration order
RollbackOrder_Fifo == compensation_stack
\* line 184: the order in which rollback visits the stack
RollbackOrder == Reversed(compensation_stack)

\* rollback, from its call to its first suspension or its return
rollback_begin(returned, running) ==
    /\ rollback_calls' = rollback_calls + 1
    /\ IF AlreadyRolledBack
       THEN /\ compensation_results' = << >>
            /\ pc' = returned
            /\ UNCHANGED << rollback_executed, results >>
       ELSE /\ rollback_executed' = TRUE
            /\ IF compensation_stack = << >>
               THEN /\ compensation_results' = << >>
                    /\ pc' = returned
                    /\ UNCHANGED results
               ELSE /\ results' = << >>
                    /\ pc' = running
                    /\ UNCHANGED compensation_results
    /\ UNCHANGED << compensation_stack, activity_log, result, error_message, call >>

\* lines 192 and 200: the entry rollback records for one compensation
CompensationSucceeded(compensation, res) ==
    [step_id |-> compensation.step_id, success |-> TRUE, result |-> res]
CompensationFailed(compensation, err) ==
    [step_id |-> compensation.step_id, success |-> FALSE, error |-> err]

\* what a compensation activity may do: return a result or fail after its
\* retries (any Exception)
CompensationOutcomes ==
    { [success |-> TRUE, result |-> CompensationResult],
      [success |-> FALSE, error |-> ActivityErrorText] }

\* lines 185-200: try / except Exception around one compensation
RollbackEntry(compensation, outcome) ==
    IF outcome.success
    THEN CompensationSucceeded(compensation, outcome.result)
    ELSE CompensationFailed(compensation, outcome.error)

\* a rollback that a failing compensation aborts: the exception leaves
\* rollback, nothing is recorded and no later compensation runs
rollback_iteration_Aborts(outcome, returned, running) ==
    LET compensation == RollbackOrder[Len(results) + 1]
        recorded == Append(results, RollbackEntry(compensation, outcome))
        last == Len(recorded) = Len(RollbackOrder)
    IN  /\ Len(results) < Len(RollbackOrder)
        /\ activity_log' = Append(activity_log,
                ActivityCall(compensation.activity_name, compensation.input,
                             compensation.step_id, TRUE))
        /\ results' = IF outcome.success THEN recorded ELSE results
        /\ compensation_results' =
              IF outcome.success /\ last THEN recorded ELSE compensation_results
        /\ pc' = IF ~outcome.success THEN "aborted"
                 ELSE IF last THEN returned ELSE running
        /\ UNCHANGED << compensation_stack, rollback_executed, result,
                        error_message, rollback_calls, call >>

\* one iteration of rollback's loop: the compensation runs and its outcome
\* is recorded; after the last one rollback returns its list
rollback_iteration(outcome, returned, running) ==
    LET compensation == RollbackOrder[Len(results) + 1]
        recorded == Append(results, RollbackEntry(compensation, outcome))
        last == Len(recorded) = Len(RollbackOrder)
    IN  /\ Len(results) < Len(RollbackOrder)
        /\ activity_log' = Append(activity_log,
                ActivityCall(compensation.activity_name, compensation.input,
                             compensation.step_id, TRUE))
        /\ results' = recorded
        /\ compensation_results' = IF last THEN recorded ELSE compensation_results
        /\ pc' = IF last THEN returned ELSE running
        /\ UNCHANGED << compensation_stack, rollback_executed, result,
                        error_message, rollback_calls, call >>
(***************************************************************************)
(* AgentWorkflow: events and derived state.                                *)
(***************************************************************************)
GoalReceived(g, u) ==
    [type |-> "GoalReceived", correlation_id |-> WorkflowId, goal |-> g, user_id |-> u]
PlanGenerated(pid, steps, cache_hit, template_id) ==
    [type |-> "PlanGenerated", correlation_id |-> WorkflowId, plan_id |-> pid,
     steps |-> steps, cache_hit |-> cache_hit, template_id |-> template_id]
ToolCallRequested(tool_name, tool_input, step_id, compensation_activity) ==
    [type |-> "ToolCallRequested", correlation_id |-> WorkflowId,
     tool_name |-> tool_name, tool_input |-> tool_input, step_id |-> step_id,
     compensation_activity |-> compensation_activity]
ToolResultSucceeded(tool_name, step_id, res) ==
    [type |-> "ToolResultReceived", correlation_id |-> WorkflowId,
     tool_name |-> tool_name, step_id |-> step_id, success |-> TRUE, result |-> res]
ToolResultFailed(tool_name, step_id, err) ==
    [type |-> "ToolResultReceived", correlation_id |-> WorkflowId,
     tool_name |-> tool_name, step_id |-> step_id, success |-> FALSE, error |-> err]
WorkflowCompleted(pid, total_steps, final_result) ==
    [type |-> "WorkflowCompleted", correlation_id |-> WorkflowId, plan_id |-> pid,
     total_steps |-> total_steps, final_result |-> final_result]
WorkflowFailed(pid, failed, err, comp_results) ==
    [type |-> "WorkflowFailed", correlation_id |-> WorkflowId, plan_id |-> pid,
     failed_step_id |-> failed, error_message |-> err,
     compensation_executed |-> TRUE, compensation_results |-> comp_results]

\* the derived state as one value
RunState(g, u, pid, steps, sres, failed) ==
    [goal |-> g, user_id |-> u, plan_id |-> pid, plan_steps |-> steps,
     step_results |-> sres, failed_step_id |-> failed]
InitialRunState == RunState("", "", "", << >>, EmptyDict, "")
CurrentRunState ==
    RunState(goal, user_id, plan_id, plan_steps, step_results, failed_step_id)

\* lines 538-543: the effect of one appended event on the derived state
ApplyEvent(st, event) ==
    IF event.type = "GoalReceived"
    THEN [st EXCEPT !.goal = event.goal, !.user_id = event.user_id]
    ELSE IF event.type = "PlanGenerated"
    THEN [st EXCEPT !.plan_id = event.plan_id, !.plan_steps = event.steps]
    ELSE st

\* _append_event: the log and the derived state after appending event
_append_event(event) ==
    LET st == ApplyEvent(CurrentRunState, event)
    IN  /\ events' = Append(events, event)
        /\ goal' = st.goal
        /\ user_id' = st.user_id
        /\ plan_id' = st.plan_id
        /\ plan_steps' = st.plan_steps

\* step.get("id", f"step_{idx}"), i counted from 0
StepId(step, i) == IF step.id # None THEN step.id ELSE "step_" \o ToString(i)
CurrentStep == plan_steps[idx + 1]
CurrentStepId == StepId(CurrentStep, idx)

\* d[k] = v
DictSet(d, k, v) == [x \in (DOMAIN d) \cup {k} |-> IF x = k THEN v ELSE d[x]]

sagaVars == << compensation_stack, rollback_executed, results,
               compensation_results, activity_log, rollback_calls >>

(***************************************************************************)
(* AgentWorkflow.run, one action per stretch of code between two state     *)
(* changes or suspension points.                                           *)
(***************************************************************************)
\* lines 302-316
run_start ==
    /\ pc = "init"
    /\ \E g \in Goals, u \in Users : _append_event(GoalReceived(g, u))
    /\ pc' = "check_cache"
    /\ UNCHANGED << step_results, failed_step_id, idx, call, result, error_message,
                    cached_plan, collaborator_log, workflow_result >>
    /\ UNCHANGED sagaVars

\* a call of workflow.execute_activity made by run's helpers (lines 372,
\* 394) and how it ended
CollaboratorCall(activity, outcome) == [activity |-> activity, outcome |-> outcome]

\* lines 371-378, the lookup returning a plan
check_semantic_cache_hit ==
    /\ pc = "check_cache"
    /\ \E p \in CachedPlans : cached_plan' = p
    /\ collaborator_log' =
          Append(collaborator_log, CollaboratorCall("check_semantic_cache", "hit"))
    /\ pc' = "plan"
    /\ UNCHANGED << events, goal, user_id, plan_id, plan_steps, step_results,
                    failed_step_id, idx, call, result, error_message, workflow_result >>
    /\ UNCHANGED sagaVars

\* line 378, the lookup returning nothing (None or an empty value)
check_semantic_cache_miss ==
    /\ pc = "check_cache"
    /\ cached_plan' = NoDict
    /\ collaborator_log' =
          Append(collaborator_log, CollaboratorCall("check_semantic_cache", "miss"))
    /\ pc' = "plan"
    /\ UNCHANGED << events, goal, user_id, plan_id, plan_steps, step_results,
                    failed_step_id, idx, call, result, error_message, workflow_result >>
    /\ UNCHANGED sagaVars

\* a lookup whose failure ends the run through run's except clause
check_semantic_cache_error_Aborts ==
    /\ pc = "check_cache"
    /\ cached_plan' = NoDict
    /\ collaborator_log' =
          Append(collaborator_log, CollaboratorCall("check_semantic_cache", "error"))
    /\ error_message' = ActivityErrorText
    /\ pc' = "handle_failure"
    /\ UNCHANGED << events, goal, user_id, plan_id, plan_steps, step_results,
                    failed_step_id, idx, call, result, workflow_result >>
    /\ UNCHANGED sagaVars

\* lines 379-381, the lookup failing (ActivityError after its retries): the
\* error is logged and None returned
check_semantic_cache_error ==
    /\ pc = "check_cache"
    /\ cached_plan' = NoDict
    /\ collaborator_log' =
          Append(collaborator_log, CollaboratorCall("check_semantic_cache", "error"))
    /\ pc' = "plan"
    /\ UNCHANGED << events, goal, user_id, plan_id, plan_steps, step_results,
                    failed_step_id, idx, call, result, error_message, workflow_result >>
    /\ UNCHANGED sagaVars

\* a run that plans anew although the lookup returned a plan
plan_from_cache_CallsPlanner ==
    /\ pc = "plan"
    /\ cached_plan # NoDict
    /\ \E p \in Plans : _append_event(PlanGenerated(p.plan_id, p.steps, FALSE, None))
    /\ collaborator_log' =
          Append(collaborator_log, CollaboratorCall("generate_plan_with_llm", "returned"))
    /\ idx' = 0
    /\ pc' = "next_step"
    /\ UNCHANGED << step_results, failed_step_id, call, result, error_message,
                    cached_plan, workflow_result >>
    /\ UNCHANGED sagaVars

\* lines 322-333
plan_from_cache ==
    /\ pc = "plan"
    /\ cached_plan # NoDict
    /\ _append_event(PlanGenerated(cached_plan.plan_id, cached_plan.steps, TRUE,
                                   cached_plan.template_id))
    /\ idx' = 0
    /\ pc' = "next_step"
    /\ UNCHANGED << step_results, failed_step_id, call, result, error_message,
                    cached_plan, collaborator_log, workflow_result >>
    /\ UNCHANGED sagaVars

\* lines 334-344, the planning activity returning a plan
plan_from_llm ==
    /\ pc = "plan"
    /\ cached_plan = NoDict
    /\ \E p \in Plans : _append_event(PlanGenerated(p.plan_id, p.steps, FALSE, None))
    /\ collaborator_log' =
          Append(collaborator_log, CollaboratorCall("generate_plan_with_llm", "returned"))
    /\ idx' = 0
    /\ pc' = "next_step"
    /\ UNCHANGED << step_results, failed_step_id, call, result, error_message,
                    cached_plan, workflow_result >>
    /\ UNCHANGED sagaVars

\* a planning failure that is swallowed, the run going on with no steps
plan_generation_fails_Proceeds ==
    /\ pc = "plan"
    /\ cached_plan = NoDict
    /\ error_message' = PlanErrorText
    /\ collaborator_log' =
          Append(collaborator_log, CollaboratorCall("generate_plan_with_llm", "raised"))
    /\ pc' = "next_step"
    /\ UNCHANGED << events, goal, user_id, plan_id, plan_steps, step_results,
                    failed_step_id, idx, call, result, cached_plan, workflow_result >>
    /\ UNCHANGED sagaVars

\* line 336 raising (the planning activity failed after its retries): line 354
plan_generation_fails ==
    /\ pc = "plan"
    /\ cached_plan = NoDict
    /\ error_message' = PlanErrorText
    /\ collaborator_log' =
          Append(collaborator_log, CollaboratorCall("generate_plan_with_llm", "raised"))
    /\ pc' = "handle_failure"
    /\ UNCHANGED << events, goal, user_id, plan_id, plan_steps, step_results,
                    failed_step_id, idx, call, result, cached_plan, workflow_result >>
    /\ UNCHANGED sagaVars

\* lines 416-441: the next step is requested and its activity started
request_step ==
    /\ pc = "next_step"
    /\ idx < Len(plan_steps)
    /\ _append_event(ToolCallRequested(CurrentStep.tool, EmptyDict, CurrentStepId,
                                       CurrentStep.compensation))
    /\ call' = CallArgs(CurrentStep.tool, EmptyDict, CurrentStep.compensation,
                        CurrentStep.compensation_input, CurrentStepId)
    /\ pc' = "executing"
    /\ UNCHANGED << step_results, failed_step_id, idx, result, error_message,
                    cached_plan, collaborator_log, workflow_result >>
    /\ UNCHANGED sagaVars

\* lines 435-441 returning
step_succeeds ==
    /\ pc = "executing"
    /\ \E res \in ToolResults : execute_with_compensation_returns(res, "record_success")
    /\ UNCHANGED wfVars

\* lines 435-441 raising ActivityError
step_fails ==
    /\ pc = "executing"
    /\ execute_with_compensation_raises(ActivityErrorText, "record_failure")
    /\ UNCHANGED wfVars

\* lines 444-452
record_success ==
    /\ pc = "record_success"
    /\ _append_event(ToolResultSucceeded(CurrentStep.tool, CurrentStepId, result))
    /\ pc' = "store_result"
    /\ UNCHANGED << step_results, failed_step_id, idx, call, result, error_message,
                    cached_plan, collaborator_log, workflow_result >>
    /\ UNCHANGED sagaVars

\* line 454, and the loop moving on
store_result ==
    /\ pc = "store_result"
    /\ step_results' = DictSet(step_results, CurrentStepId, result)
    /\ idx' = idx + 1
    /\ pc' = "next_step"
    /\ UNCHANGED << events, goal, user_id, plan_id, plan_steps, failed_step_id, call,
                    result, error_message, cached_plan, collaborator_log, workflow_result >>
    /\ UNCHANGED sagaVars

\* lines 458-466
record_failure ==
    /\ pc = "record_failure"
    /\ _append_event(ToolResultFailed(CurrentStep.tool, CurrentStepId, error_message))
    /\ pc' = "set_failed_step"
    /\ UNCHANGED << step_results, failed_step_id, idx, call, result, error_message,
                    cached_plan, collaborator_log, workflow_result >>
    /\ UNCHANGED sagaVars

\* a loop that records the failed step and goes on with the next one
set_failed_step_Continues ==
    /\ pc = "set_failed_step"
    /\ failed_step_id' = CurrentStepId
    /\ idx' = idx + 1
    /\ pc' = "next_step"
    /\ UNCHANGED << events, goal, user_id, plan_id, plan_steps, step_results, call,
                    result, error_message, cached_plan, collaborator_log, workflow_result >>
    /\ UNCHANGED sagaVars

\* a failure path that records the id of the step after the failed one
set_failed_step_OffByOne ==
    /\ pc = "set_failed_step"
    /\ failed_step_id' = "step_" \o ToString(idx + 1)
    /\ pc' = "handle_failure"
    /\ UNCHANGED << events, goal, user_id, plan_id, plan_steps, step_results, idx, call,
                    result, error_message, cached_plan, collaborator_log, workflow_result >>
    /\ UNCHANGED sagaVars

\* lines 468-469, and line 354 catching the re-raised error
set_failed_step ==
    /\ pc = "set_failed_step"
    /\ failed_step_id' = CurrentStepId
    /\ pc' = "handle_failure"
    /\ UNCHANGED << events, goal, user_id, plan_id, plan_steps, step_results, idx, call,
                    result, error_message, cached_plan, collaborator_log, workflow_result >>
    /\ UNCHANGED sagaVars

\* lines 475-480
SuccessResult ==
    [status |-> "completed", plan_id |-> plan_id,
     steps_executed |-> Len(plan_steps), results |-> step_results]

\* lines 471-492, after the last step
_handle_success ==
    /\ pc = "next_step"
    /\ idx = Len(plan_steps)
    /\ _append_event(WorkflowCompleted(plan_id, Len(plan_steps), SuccessResult))
    /\ workflow_result' = SuccessResult
    /\ pc' = "completed"
    /\ UNCHANGED << step_results, failed_step_id, idx, call, result, error_message,
                    cached_plan, collaborator_log >>
    /\ UNCHANGED sagaVars

\* lines 494-499: _handle_failure calls rollback
handle_failure_rollback ==
    /\ pc = "handle_failure"
    /\ rollback_begin("rolled_back", "rolling_back")
    /\ UNCHANGED wfVars

\* one compensation of the rollback
handle_failure_compensation ==
    /\ pc = "rolling_back"
    /\ \E outcome \in CompensationOutcomes :
            rollback_iteration(outcome, "rolled_back", "rolling_back")
    /\ UNCHANGED wfVars

\* lines 501-508
FailureResult ==
    [status |-> "failed", plan_id |-> plan_id, failed_step_id |-> failed_step_id,
     error |-> error_message, compensation_executed |-> TRUE,
     compensation_results |-> compensation_results]

\* a failure path that reports an empty compensation list
handle_failure_finish_DropsResults ==
    /\ pc = "rolled_back"
    /\ _append_event(WorkflowFailed(plan_id, failed_step_id, error_message, << >>))
    /\ workflow_result' = FailureResult
    /\ pc' = "failed"
    /\ UNCHANGED << step_results, failed_step_id, idx, call, result, error_message,
                    cached_plan, collaborator_log >>
    /\ UNCHANGED sagaVars

\* lines 501-521, and lines 359-363 raising ApplicationError
handle_failure_finish ==
    /\ pc = "rolled_back"
    /\ _append_event(WorkflowFailed(plan_id, failed_step_id, error_message,
                                    compensation_results))
    /\ workflow_result' = FailureResult
    /\ pc' = "failed"
    /\ UNCHANGED << step_results, failed_step_id, idx, call, result, error_message,
                    cached_plan, collaborator_log >>
    /\ UNCHANGED sagaVars

\* the fields of a freshly constructed AgentWorkflow (lines 265-282) and
\* SagaContext (lines 106-108), with every local unset
Constructed ==
    /\ events = << >>
    /\ goal = ""
    /\ user_id = ""
    /\ plan_id = ""
    /\ plan_steps = << >>
    /\ step_results = EmptyDict
    /\ failed_step_id = ""
    /\ compensation_stack = << >>
    /\ rollback_executed = FALSE
    /\ idx = 0
    /\ call = NoCall
    /\ result = NoDict
    /\ error_message = ""
    /\ cached_plan = NoDict
    /\ results = << >>
    /\ compensation_results = << >>
    /\ workflow_result = NoDict
    /\ activity_log = << >>
    /\ rollback_calls = 0
    /\ collaborator_log = << >>

Init == pc = "init" /\ Constructed

Next ==
    \/ run_start
    \/ check_semantic_cache_hit
    \/ check_semantic_cache_miss
    \/ check_semantic_cache_error
    \/ plan_from_cache
    \/ plan_from_llm
    \/ plan_generation_fails
    \/ request_step
    \/ step_succeeds
    \/ step_fails
    \/ record_success
    \/ store_result
    \/ record_failure
    \/ set_failed_step
    \/ _handle_success
    \/ handle_failure_rollback
    \/ handle_failure_compensation
    \/ handle_failure_finish

Spec == Init /\ [][Next]_vars

(***************************************************************************)
(* Cancellation.  The run is suspended only in its awaits of activities:   *)
(* the cache lookup (line 372), the planner (line 394), a step's activity  *)
(* (line 135) and a compensation (line 186).  How a cancellation of the    *)
(* run surfaces at such an await is decided by the workflow library, not   *)
(* by this code, so both outcomes are behaviours: as an ActivityError of   *)
(* the awaited activity, which is the failing outcome that Next already    *)
(* has for each await, or as asyncio.CancelledError, which derives from    *)
(* BaseException.  The actions below are the second outcome: the           *)
(* exception is matched by none of "except ActivityError" (lines 379,      *)
(* 456) and "except Exception" (lines 194, 354) and ends the run where it  *)
(* is, with no error text computed.                                        *)
(***************************************************************************)
\* str(asyncio.CancelledError()): the exception carries no message
CancelledErrorText == ""

\* line 372 raising CancelledError, not caught at line 379 nor at line 354
cache_cancelled ==
    /\ pc = "check_cache"
    /\ collaborator_log' =
          Append(collaborator_log, CollaboratorCall("check_semantic_cache", "cancelled"))
    /\ error_message' = CancelledErrorText
    /\ pc' = "cancelled"
    /\ UNCHANGED << events, goal, user_id, plan_id, plan_steps, step_results,
                    failed_step_id, idx, call, result, cached_plan, workflow_result >>
    /\ UNCHANGED sagaVars

\* line 394 raising CancelledError, not caught at line 354
planner_cancelled ==
    /\ pc = "plan"
    /\ cached_plan = NoDict
    /\ collaborator_log' =
          Append(collaborator_log, CollaboratorCall("generate_plan_with_llm", "cancelled"))
    /\ error_message' = CancelledErrorText
    /\ pc' = "cancelled"
    /\ UNCHANGED << events, goal, user_id, plan_id, plan_steps, step_results,
                    failed_step_id, idx, call, result, cached_plan, workflow_result >>
    /\ UNCHANGED sagaVars

\* line 135 raising CancelledError, not caught at line 456 nor at line 354
step_cancelled ==
    /\ pc = "executing"
    /\ execute_with_compensation_raises(CancelledErrorText, "cancelled")
    /\ UNCHANGED wfVars

\* line 186 raising CancelledError inside rollback, not caught at line 194
\* nor at line 354: the compensation was invoked, nothing is recorded for
\* it, the remaining compensations are not invoked and rollback does not
\* return
compensation_cancelled ==
    /\ pc = "rolling_back"
    /\ Len(results) < Len(RollbackOrder)
    /\ LET compensation == RollbackOrder[Len(results) + 1]
       IN  activity_log' = Append(activity_log,
                ActivityCall(compensation.activity_name, compensation.input,
                             compensation.step_id, TRUE))
    /\ pc' = "cancelled"
    /\ UNCHANGED << compensation_stack, rollback_executed, results,
                    compensation_results, rollback_calls, call, result,
                    error_message >>
    /\ UNCHANGED wfVars

CancelNext ==
    \/ Next
    \/ cache_cancelled
    \/ planner_cancelled
    \/ step_cancelled
    \/ compensation_cancelled

CancelSpec == Init /\ [][CancelNext]_vars
(***************************************************************************)
(* SagaSpec: a SagaContext used directly, as in the class docstring        *)
(* (lines 79-92): calls of execute_with_compensation and of rollback, one  *)
(* at a time, in any order.                                                *)
(***************************************************************************)
SagaIdle == {"saga_idle", "saga_exec_returned", "saga_exec_raised", "saga_rolled_back"}

\* executions of a main (non-compensation) activity so far
MainCalls == SelectSeq(activity_log, LAMBDA c : ~c.is_compensation)
\* executions of a compensation activity so far
CompensationCalls == SelectSeq(activity_log, LAMBDA c : c.is_compensation)

saga_execute_call ==
    /\ pc \in SagaIdle
    /\ Len(MainCalls) < MaxSagaCalls
    /\ \E tool \in Tools, comp \in {None} \cup Compensations, tmpl \in Templates :
            call' = CallArgs(tool, EmptyDict, comp, tmpl,
                             "step_" \o ToString(Len(MainCalls)))
    /\ pc' = "saga_executing"
    /\ UNCHANGED << result, error_message >>
    /\ UNCHANGED wfVars
    /\ UNCHANGED sagaVars

saga_execute_returns ==
    /\ pc = "saga_executing"
    /\ \E res \in ToolResults : execute_with_compensation_returns(res, "saga_exec_returned")
    /\ UNCHANGED wfVars

saga_execute_raises ==
    /\ pc = "saga_executing"
    /\ execute_with_compensation_raises(ActivityErrorText, "saga_exec_raised")
    /\ UNCHANGED wfVars

saga_rollback_call ==
    /\ pc \in SagaIdle
    /\ rollback_calls < MaxRollbackCalls
    /\ rollback_begin("saga_rolled_back", "saga_rolling_back")
    /\ UNCHANGED wfVars

saga_rollback_compensation ==
    /\ pc = "saga_rolling_back"
    /\ \E outcome \in CompensationOutcomes :
            rollback_iteration(outcome, "saga_rolled_back", "saga_rolling_back")
    /\ UNCHANGED wfVars

SagaInit == pc = "saga_idle" /\ Constructed

SagaNext ==
    \/ saga_execute_call
    \/ saga_execute_returns
    \/ saga_execute_raises
    \/ saga_rollback_call
    \/ saga_rollback_compensation

SagaSpec == SagaInit /\ [][SagaNext]_vars
(***************************************************************************)
(* Properties.                                                             *)
(***************************************************************************)
\* the invocation rollback makes for one entry of the stack (lines 186-191)
CompensationCallOf(compensation) ==
    ActivityCall(compensation.activity_name, compensation.input,
                 compensation.step_id, TRUE)

\* C1: the first rollback call executes the registered compensations one at
\* a time, last registered first: while it runs, the compensations executed
\* so far are the last entries of the stack, newest first, each with one
\* recorded result; when it has returned, every entry of the stack has been
\* executed exactly once and the returned list has one entry per
\* compensation, in that same reverse order, whatever the outcomes.
C1_RollbackIsLifo ==
    (rollback_calls = 1 /\ pc \in {"saga_rolling_back", "saga_rolled_back"}) =>
        LET n == Len(compensation_stack)
            done == Len(CompensationCalls)
        IN  /\ done <= n
            /\ Len(results) = done
            /\ \A i \in 1..done :
                  /\ CompensationCalls[i] = CompensationCallOf(compensation_stack[n + 1 - i])
                  /\ results[i].step_id = compensation_stack[n + 1 - i].step_id
            /\ pc = "saga_rolling_back" => done < n
            /\ pc = "saga_rolled_back" =>
                  /\ done = n
                  /\ Len(compensation_results) = n
                  /\ \A i \in 1..n :
                        compensation_results[i].step_id = compensation_stack[n + 1 - i].step_id

\* C1 witness: a first rollback that has returned after executing three
\* compensations of which some succeeded and some failed
C1_Witness ==
    /\ pc = "saga_rolled_back"
    /\ rollback_calls = 1
    /\ Len(compensation_stack) = 3
    /\ Len(compensation_results) = 3
    /\ compensation_results[1].success
    /\ ~compensation_results[2].success

\* C3: once rollback has been called, a later call executes nothing and
\* returns the empty list: it never enters the loop, the compensations
\* executed stay those of the first call, and the list it returns is empty.
C3_RollbackIdempotent ==
    rollback_calls >= 2 =>
        /\ pc # "saga_rolling_back"
        /\ Len(CompensationCalls) = Len(results)
        /\ Len(results) <= Len(compensation_stack)
        /\ pc = "saga_rolled_back" => compensation_results = << >>

\* C3 witness: a second rollback call has returned; the first one executed
\* two compensations, one of which failed, and a compensation registered
\* after the first rollback is on the stack
C3_Witness ==
    /\ pc = "saga_rolled_back"
    /\ rollback_calls = 2
    /\ Len(results) = 2
    /\ ~results[1].success
    /\ Len(compensation_stack) = 3
    /\ compensation_results = << >>

\* C6: a step whose activity fails inside execute_with_compensation leaves
\* the compensation stack exactly as it was before the call, and the error
\* reaches the caller.
C6_FailureLeavesStack ==
    [][(pc = "saga_executing" /\ pc' = "saga_exec_raised") =>
          /\ compensation_stack' = compensation_stack
          /\ error_message' = ActivityErrorText]_vars

\* C6 witness: the call of a step that declares a compensation has raised,
\* with earlier compensations on the stack
C6_Witness ==
    /\ pc = "saga_exec_raised"
    /\ Truthy(call.compensation_activity)
    /\ Len(compensation_stack) = 2
    /\ \A i \in 1..Len(compensation_stack) : compensation_stack[i].step_id # call.step_id
(***************************************************************************)
(* Properties of a run of AgentWorkflow.                                   *)
(***************************************************************************)
IsTerminal(event) == event.type \in {"WorkflowCompleted", "WorkflowFailed"}
IsSuccessRecord(event) == event.type = "ToolResultReceived" /\ event.success
IsFailureRecord(event) == event.type = "ToolResultReceived" /\ ~event.success

\* the ToolResultReceived{success=true} events, in log order: the k-th one
\* is the record of the k-th plan step, since steps run in plan order and
\* the loop stops at the first failure
SuccessRecords == SelectSeq(events, IsSuccessRecord)
FailureRecords == SelectSeq(events, IsFailureRecord)

\* the compensations of the first k plan steps, each resolved against the
\* recorded result of its own step
RECURSIVE RegisteredUpTo(_)
RegisteredUpTo(k) ==
    IF k = 0 THEN << >>
    ELSE LET step == plan_steps[k]
         IN  IF Truthy(step.compensation)
             THEN Append(RegisteredUpTo(k - 1),
                         CompensationStep(step.compensation,
                                          _inject_result_values(step.compensation_input,
                                                                SuccessRecords[k].result),
                                          StepId(step, k - 1)))
             ELSE RegisteredUpTo(k - 1)

RollbackFinished == pc \in {"rolled_back", "failed"}

\* C2: once the rollback of a failed run has finished, every entry has
\* been popped and the compensation stack is empty.
C2_StackEmptyAfterRollback ==
    RollbackFinished => compensation_stack = << >>

\* C4: every compensation that rollback executes gets an entry in the
\* result list, a failing one an entry with success = FALSE and the error,
\* and rollback goes on to the remaining entries: after any failure the run
\* is still rolling back or has finished the rollback with one entry per
\* registered compensation, and the failed run ends with WorkflowFailed
\* carrying those entries.
C4_BestEffortRollback ==
    /\ Len(results) = Len(CompensationCalls)
    /\ \A i \in 1..Len(results) :
          /\ results[i].step_id = CompensationCalls[i].step_id
          /\ ~results[i].success => results[i].error = ActivityErrorText
    /\ rollback_executed => pc \in {"rolling_back", "rolled_back", "failed"}
    /\ pc = "rolling_back" => Len(results) < Len(compensation_stack)
    /\ RollbackFinished =>
          /\ Len(results) = Len(compensation_stack)
          /\ compensation_results = results
    /\ pc = "failed" =>
          /\ Last(events).type = "WorkflowFailed"
          /\ Last(events).compensation_results = results

\* C4 witness: a failed run whose newest compensation failed and whose
\* older one was executed all the same
C4_Witness ==
    /\ pc = "failed"
    /\ Len(compensation_results) = 2
    /\ ~compensation_results[1].success
    /\ compensation_results[1].error = ActivityErrorText
    /\ compensation_results[2].success
    /\ Last(events).type = "WorkflowFailed"
    /\ Last(events).compensation_results = compensation_results

\* C5: as long as rollback has not run, every plan step that declares a
\* compensation and whose success is recorded (its ToolResultReceived
\* {success=true} is in the log, or its result has been stored) has its
\* CompensationStep on the stack.
C5_RegisteredBeforeRecorded ==
    ~rollback_executed =>
        \A k \in 1..Len(plan_steps) :
            (Truthy(plan_steps[k].compensation) /\ (k <= Len(SuccessRecords) \/ k <= idx)) =>
                \E i \in 1..Len(compensation_stack) :
                    /\ compensation_stack[i].step_id = StepId(plan_steps[k], k - 1)
                    /\ compensation_stack[i].activity_name = plan_steps[k].compensation

\* C5 witness: the success of the second step, which declares a
\* compensation and returned an empty result, has just been recorded
C5_Witness ==
    /\ pc = "store_result"
    /\ idx = 1
    /\ Truthy(CurrentStep.compensation)
    /\ result = EmptyDict
    /\ IsSuccessRecord(Last(events))
    /\ ~rollback_executed
    /\ Len(compensation_stack) = 2

\* C7: the log starts with GoalReceived; a terminal event is always the
\* last event of the log, so there is at most one and nothing follows it;
\* a run is over exactly when its log ends with a terminal event,
\* WorkflowCompleted for a completed run and WorkflowFailed for a failed
\* one; and a run that is not over can always take a step.
C7_OneTerminalEvent ==
    /\ events # << >> => events[1].type = "GoalReceived"
    /\ \A i \in 1..Len(events) : IsTerminal(events[i]) => i = Len(events)
    /\ pc = "completed" <=> (events # << >> /\ Last(events).type = "WorkflowCompleted")
    /\ pc = "failed" <=> (events # << >> /\ Last(events).type = "WorkflowFailed")
    /\ pc \notin {"completed", "failed"} => ENABLED Next

\* C8 as claimed: a completed run returns one result per plan step, and
\* WorkflowCompleted is the last event of its log.
C8_OneResultPerStep ==
    pc = "completed" =>
        /\ Cardinality(DOMAIN step_results) = Len(plan_steps)
        /\ Cardinality(DOMAIN workflow_result.results) = Len(plan_steps)
        /\ Last(events).type = "WorkflowCompleted"

\* replay(events): the derived state obtained by applying, from the initial
\* state, the effect _append_event gives to each event of the log
RECURSIVE Replay(_)
Replay(log) ==
    IF log = << >> THEN InitialRunState
    ELSE ApplyEvent(Replay(SubSeq(log, 1, Len(log) - 1)), Last(log))

\* C9 as claimed: in every state the derived RunState is the fold of the
\* event log from the initial state.
C9_DerivedStateIsFold ==
    CurrentRunState = Replay(events)

\* C10: when a plan step fails, ToolResultReceived{success=false} is
\* appended first, with no compensation executed and rollback not started;
\* failed_step_id is recorded next; then rollback runs, appending no event;
\* then WorkflowFailed is appended right after the failure record, carrying
\* the failed step's id and exactly the list rollback returned, which has
\* one entry per compensation ever executed in the run. A compensation is
\* executed only in a run whose log holds the failure record.
C10_FailureProtocol ==
    LET failures == Len(FailureRecords)
        n == Len(events)
        untouched == ~rollback_executed /\ CompensationCalls = << >>
    IN  /\ failures <= 1
        /\ CompensationCalls # << >> => failures = 1
        /\ pc = "record_failure" => failures = 0 /\ failed_step_id = "" /\ untouched
        /\ pc = "set_failed_step" =>
              /\ IsFailureRecord(Last(events))
              /\ Last(events).step_id = CurrentStepId
              /\ failed_step_id = ""
              /\ untouched
        /\ (failures = 1 /\ pc = "handle_failure") =>
              /\ IsFailureRecord(Last(events))
              /\ failed_step_id = Last(events).step_id
              /\ untouched
        /\ (failures = 1 /\ pc \in {"rolling_back", "rolled_back"}) =>
              /\ IsFailureRecord(Last(events))
              /\ failed_step_id = Last(events).step_id
              /\ rollback_executed
        /\ (failures = 1 /\ pc = "failed") =>
              /\ IsFailureRecord(events[n - 1])
              /\ events[n].type = "WorkflowFailed"
              /\ events[n].failed_step_id = events[n - 1].step_id
              /\ events[n].compensation_results = compensation_results
              /\ Len(compensation_results) = Len(compensation_stack)
              /\ Len(compensation_results) = Len(CompensationCalls)
              /\ \A i \in 1..Len(compensation_results) :
                    compensation_results[i].step_id = CompensationCalls[i].step_id

\* C10 witness: the third step failed, two compensations were executed and
\* WorkflowFailed was appended with both outcomes
C10_Witness ==
    /\ pc = "failed"
    /\ Len(FailureRecords) = 1
    /\ failed_step_id = "step_2"
    /\ Len(CompensationCalls) = 2
    /\ Len(Last(events).compensation_results) = 2
\* the plan step whose activity failed: steps run in plan order, so it is
\* the one after the steps with a success record
FailedStepPosition == Len(SuccessRecords) + 1

\* C11: a failed run reports the same failure in its WorkflowFailed event
\* and in the payload raised to the invoker: the id of the step whose
\* activity failed (its declared id, or step_<index>; empty when the run
\* failed before any step), the error that triggered the failure and the
\* list rollback returned, one entry per compensation executed. In the
\* trip-booking scenario with book_hotel failing, the id is the second
\* step's and the list holds exactly one entry, for cancel_flight.
C11_FailureReport ==
    pc = "failed" =>
        LET ev == Last(events)
            stepFailed == FailureRecords # << >>
        IN  /\ ev.type = "WorkflowFailed"
            /\ workflow_result.status = "failed"
            /\ ev.failed_step_id = workflow_result.failed_step_id
            /\ ev.failed_step_id =
                  IF stepFailed
                  THEN StepId(plan_steps[FailedStepPosition], FailedStepPosition - 1)
                  ELSE ""
            /\ ev.error_message = workflow_result.error
            /\ ev.error_message = IF stepFailed THEN ActivityErrorText ELSE PlanErrorText
            /\ stepFailed => FailureRecords[1].error = ev.error_message
            /\ ev.compensation_results = workflow_result.compensation_results
            /\ Len(ev.compensation_results) = Len(CompensationCalls)
            /\ \A i \in 1..Len(CompensationCalls) :
                  ev.compensation_results[i].step_id = CompensationCalls[i].step_id
            /\ (plan_steps \in ScenarioStepLists /\ Len(SuccessRecords) = 1) =>
                  /\ ev.failed_step_id = StepId(plan_steps[2], 1)
                  /\ Len(ev.compensation_results) = 1
                  /\ ev.compensation_results[1].step_id = StepId(plan_steps[1], 0)
                  /\ CompensationCalls[1].activity_name = "cancel_flight"

\* C11 witness: the scenario without explicit ids, book_hotel failed and
\* cancel_flight succeeded
C11_Witness ==
    /\ pc = "failed"
    /\ plan_steps \in ScenarioStepLists
    /\ plan_steps[1].id = None /\ plan_steps[2].id = None
    /\ Last(events).failed_step_id = "step_1"
    /\ workflow_result.failed_step_id = "step_1"
    /\ Len(Last(events).compensation_results) = 1
    /\ Last(events).compensation_results[1].success
    /\ Last(events).compensation_results[1].step_id = "step_0"
\* C12: a run cancelled between steps rolls back as a failed step would:
\* once the cancelled run has ended, every compensation registered before
\* the cancellation has been executed
C12_CancelTriggersRollback ==
    pc = "cancelled" =>
        \A i \in 1..Len(compensation_stack) :
            \E j \in 1..Len(CompensationCalls) :
                CompensationCalls[j] = CompensationCallOf(compensation_stack[i])
(***************************************************************************)
(* Checkpointing.  self.MAX_HISTORY_SIZE is an attribute of the workflow   *)
(* instance, 1000 by default (line 282); it is scaled down here so that a  *)
(* run of MaxSteps steps crosses it.  _append_event is the only place that *)
(* appends to the log, and after each append it tests the new length       *)
(* against the threshold (line 546), so the appends that signalled are     *)
(* determined by the length of the log.                                    *)
(***************************************************************************)
MAX_HISTORY_SIZE == 5

\* line 546, evaluated after the append that made the log n events long
CheckpointSignalled(n) == n >= MAX_HISTORY_SIZE

\* the number of appends so far that logged the checkpoint signal
CheckpointSignals == Cardinality({ n \in 1..Len(events) : CheckpointSignalled(n) })

\* C13: the checkpoint signal fires once per run, at the append that
\* crosses the threshold, and on no later append
C13_CheckpointFiresOnce == CheckpointSignals <= 1
\* how the cache lookup of the run ended, None while it has not been made
CacheOutcome ==
    IF collaborator_log = << >> THEN None ELSE collaborator_log[1].outcome

\* the calls of the planning activity made by the run
PlannerCalls ==
    SelectSeq(collaborator_log, LAMBDA c : c.activity = "generate_plan_with_llm")

\* C14: an error of the cache lookup never aborts the run. It is treated
\* as a miss: no cached plan is used, the planning activity is the next
\* thing called, and when it returns the log continues with PlanGenerated
\* with cache_hit false and the run goes on to execute the steps.
C14_CacheErrorIsMiss ==
    CacheOutcome = "error" =>
        /\ cached_plan = NoDict
        /\ pc # "check_cache"
        /\ pc # "plan" =>
              /\ Len(collaborator_log) = 2
              /\ Len(PlannerCalls) = 1
        /\ (PlannerCalls # << >> /\ PlannerCalls[1].outcome = "returned") =>
              /\ Len(events) >= 2
              /\ events[2].type = "PlanGenerated"
              /\ events[2].cache_hit = FALSE
              /\ events[2].template_id = None
              /\ plan_steps = events[2].steps
        /\ (PlannerCalls # << >> /\ PlannerCalls[1].outcome = "raised") =>
              error_message = PlanErrorText

\* C14 witness: the lookup failed and the run completed a planned step
C14_Witness ==
    /\ CacheOutcome = "error"
    /\ pc = "completed"
    /\ Len(plan_steps) >= 1
    /\ events[2].type = "PlanGenerated" /\ ~events[2].cache_hit
    /\ Len(SuccessRecords) = Len(plan_steps)

\* C15: after a cache hit the log continues with PlanGenerated carrying
\* cache_hit true and the cached plan's id, steps and template_id, the run
\* executes the cached steps, and the planning activity is never called;
\* the planning activity is called only in runs whose lookup missed or
\* failed, and then once.
C15_CacheHitSkipsPlanner ==
    /\ CacheOutcome = "hit" =>
          /\ PlannerCalls = << >>
          /\ cached_plan \in CachedPlans
          /\ pc # "plan" =>
                /\ Len(events) >= 2
                /\ events[2] = PlanGenerated(cached_plan.plan_id, cached_plan.steps,
                                              TRUE, cached_plan.template_id)
                /\ plan_steps = cached_plan.steps
                /\ plan_id = cached_plan.plan_id
    /\ PlannerCalls # << >> =>
          /\ CacheOutcome \in {"miss", "error"}
          /\ Len(PlannerCalls) = 1

\* C15 witness: a hit whose cached step has been executed to completion
C15_Witness ==
    /\ CacheOutcome = "hit"
    /\ pc = "completed"
    /\ Len(plan_steps) >= 1
    /\ events[2].cache_hit /\ events[2].template_id = "T1"
    /\ Len(SuccessRecords) = Len(plan_steps)
    /\ PlannerCalls = << >>
\* the planning activity of the run failed terminally
PlanGenerationFailed ==
    PlannerCalls # << >> /\ PlannerCalls[1].outcome = "raised"

\* C16: when plan generation fails the run goes straight to its failure
\* handling and ends Failed with no step executed: the log holds no
\* PlanGenerated, ToolCallRequested or ToolResultReceived, the stack is
\* empty, no activity of a step or compensation is invoked, and
\* WorkflowFailed carries an empty compensation list.
C16_PlanFailureRunsNoStep ==
    PlanGenerationFailed =>
        /\ pc \in {"handle_failure", "rolled_back", "failed"}
        /\ \A i \in 1..Len(events) :
              events[i].type \in {"GoalReceived", "WorkflowFailed"}
        /\ plan_steps = << >>
        /\ compensation_stack = << >>
        /\ activity_log = << >>
        /\ pc = "failed" =>
              /\ Len(events) = 2
              /\ events[2].type = "WorkflowFailed"
              /\ events[2].compensation_results = << >>
              /\ events[2].error_message = PlanErrorText
              /\ workflow_result.compensation_results = << >>
              /\ workflow_result.status = "failed"

\* C16 witness: a run that ended Failed because planning failed
C16_Witness ==
    /\ PlanGenerationFailed
    /\ pc = "failed"
    /\ rollback_executed
    /\ Last(events).type = "WorkflowFailed"
    /\ Last(events).compensation_results = << >>
\* the events of step execution, in log order
IsStepEvent(event) == event.type \in {"ToolCallRequested", "ToolResultReceived"}
StepEvents == SelectSeq(events, IsStepEvent)

\* C17: steps execute one at a time in plan order. The step events of the
\* log alternate request, result, request, result, ...; the k-th request
\* and the k-th result are those of the k-th plan step; a request is
\* preceded by the success record of the step before it, so a failure
\* record is the last step event and no later step is requested; and the
\* step activities invoked are those of the requested steps, in order.
C17_StepsInPlanOrder ==
    /\ Len(StepEvents) <= 2 * Len(plan_steps)
    /\ \A p \in 1..Len(StepEvents) :
          LET k == (p + 1) \div 2
              step == plan_steps[k]
              ev == StepEvents[p]
          IN  /\ ev.step_id = StepId(step, k - 1)
              /\ ev.tool_name = step.tool
              /\ ev.type = IF p % 2 = 1 THEN "ToolCallRequested"
                                         ELSE "ToolResultReceived"
              /\ (p % 2 = 1 /\ p > 1) => IsSuccessRecord(StepEvents[p - 1])
    /\ Len(MainCalls) <= (Len(StepEvents) + 1) \div 2
    /\ \A k \in 1..Len(MainCalls) : MainCalls[k].activity_name = plan_steps[k].tool

\* C17 witness: a plan of three steps whose second step failed; the third
\* step was never requested
C17_Witness ==
    /\ pc = "failed"
    /\ Len(plan_steps) = 3
    /\ Len(StepEvents) = 4
    /\ IsSuccessRecord(StepEvents[2])
    /\ IsFailureRecord(StepEvents[4])
    /\ Len(MainCalls) = 2
\* the positions, in plan order, of the first k plan steps that declare a
\* compensation
RECURSIVE CompensatedPositions(_)
CompensatedPositions(k) ==
    IF k = 0 THEN << >>
    ELSE IF Truthy(plan_steps[k].compensation)
         THEN Append(CompensatedPositions(k - 1), k)
         ELSE CompensatedPositions(k - 1)

\* C18: the input of a compensation is resolved once, at registration,
\* against the result of the step it compensates, and stays as resolved:
\* every stack entry of a recorded step, and every compensation that
\* rollback invokes, carries the template of its own step resolved against
\* the result of that step, whatever the later steps returned.
C18_InputFrozenAtRegistration ==
    LET positions == CompensatedPositions(Len(SuccessRecords))
        n == Len(positions)
    IN  /\ Len(compensation_stack) >= n
        /\ \A i \in 1..n :
              compensation_stack[i].input =
                  _inject_result_values(plan_steps[positions[i]].compensation_input,
                                        SuccessRecords[positions[i]].result)
        /\ Len(CompensationCalls) <= n
        /\ \A j \in 1..Len(CompensationCalls) :
              LET q == positions[n + 1 - j]
              IN  /\ CompensationCalls[j].step_id = StepId(plan_steps[q], q - 1)
                  /\ CompensationCalls[j].activity_name = plan_steps[q].compensation
                  /\ CompensationCalls[j].input =
                        _inject_result_values(plan_steps[q].compensation_input,
                                              SuccessRecords[q].result)

\* C18 witness: two compensated steps with the same template, the first
\* returning a booking id and the second returning nothing; rollback has
\* invoked both compensations, each with the input resolved against its
\* own step's result
C18_Witness ==
    /\ pc = "failed"
    /\ Len(SuccessRecords) = 2
    /\ plan_steps[1].compensation_input = TemplateBooking
    /\ plan_steps[2].compensation_input = TemplateBooking
    /\ SuccessRecords[1].result = ResultBooked
    /\ SuccessRecords[2].result = EmptyDict
    /\ Len(CompensationCalls) = 2
    /\ CompensationCalls[1].input.booking_id = Placeholder("booking_id")
    /\ CompensationCalls[2].input.booking_id = Str(<< "BK123" >>)
(***************************************************************************)
(* _inject_result_values on its own: a template and a result are drawn    *)
(* from bounded sets and the registration of lines 140-150 is applied to   *)
(* them.  The values of a template are well-formed placeholders, a plain   *)
(* string, a number, and strings that hold the placeholder text without    *)
(* being a placeholder: one without the closing brace, one with text after *)
(* the brace and one with text before the opening brace.                   *)
(***************************************************************************)
InjectKeys == {"booking_id", "reason"}
InjectFields == {"booking_id", "booking_idx"}
Number(n) == [kind |-> "int", toks |-> << ToString(n) >>]
InjectValues ==
    { Placeholder("booking_id"),
      Placeholder("price"),
      Str(<< "rollback" >>),
      Number(5),
      Str(<< ResultPrefix, "booking_id" >>),
      Str(<< ResultPrefix, "booking_id", CloseBrace, "x" >>),
      Str(<< "x", ResultPrefix, "booking_id", CloseBrace >>) }
InjectTemplates ==
    UNION { [keys -> InjectValues] : keys \in SUBSET InjectKeys }
InjectResults ==
    UNION { [fields -> {Str(<< "BK123" >>)}] : fields \in SUBSET InjectFields }

InjectInit ==
    /\ pc = "inject"
    /\ \E template \in InjectTemplates :
          call = CallArgs("book_flight", EmptyDict, "cancel_flight", template, "step_0")
    /\ result \in InjectResults
    /\ events = << >>
    /\ goal = ""
    /\ user_id = ""
    /\ plan_id = ""
    /\ plan_steps = << >>
    /\ step_results = EmptyDict
    /\ failed_step_id = ""
    /\ compensation_stack = << >>
    /\ rollback_executed = FALSE
    /\ idx = 0
    /\ error_message = ""
    /\ cached_plan = NoDict
    /\ results = << >>
    /\ compensation_results = << >>
    /\ workflow_result = NoDict
    /\ activity_log = << >>
    /\ rollback_calls = 0
    /\ collaborator_log = << >>

\* lines 140-150 applied to the drawn template and result
inject_result_values ==
    /\ pc = "inject"
    /\ compensation_stack' = Register(compensation_stack, call, result)
    /\ pc' = "injected"
    /\ UNCHANGED wfVars
    /\ UNCHANGED << rollback_executed, call, result, error_message, results,
                    compensation_results, activity_log, rollback_calls >>

InjectNext == inject_result_values

InjectSpec == InjectInit /\ [][InjectNext]_vars

\* C19: the resolved input has exactly the template's keys; a field whose
\* value is the placeholder of a field the result contains holds the
\* result's value; every other field, a placeholder of an absent field
\* included, is copied unchanged
C19_InjectResolvesPlaceholders ==
    pc = "injected" =>
        LET template == call.compensation_input
            input == compensation_stack[1].input
        IN  /\ DOMAIN input = DOMAIN template
            /\ \A key \in DOMAIN template :
                  IF \E f \in DOMAIN result : template[key] = Placeholder(f)
                  THEN \E f \in DOMAIN result :
                          template[key] = Placeholder(f) /\ input[key] = result[f]
                  ELSE input[key] = template[key]

\* the number of plan steps whose activity has succeeded: the steps with a
\* success record, and the step whose activity has returned and whose
\* record is about to be appended
StepsSucceeded ==
    Len(SuccessRecords) + (IF pc = "record_success" THEN 1 ELSE 0)

\* C20: until rollback begins, the stack is exactly the sequence, in
\* execution order, of the steps that succeeded and declare a
\* compensation, one entry each: steps without a compensation, the failed
\* step and the steps not yet executed have no entry.
C20_StackIsCompensatedSuccesses ==
    ~rollback_executed =>
        LET positions == CompensatedPositions(StepsSucceeded)
        IN  /\ Len(compensation_stack) = Len(positions)
            /\ \A i \in 1..Len(positions) :
                  LET q == positions[i]
                  IN  /\ compensation_stack[i].step_id = StepId(plan_steps[q], q - 1)
                      /\ compensation_stack[i].activity_name = plan_steps[q].compensation

\* C20 witness: of three steps that all declare or omit a compensation,
\* the first succeeded with one, the second succeeded without one and the
\* third, declaring one, failed; rollback has not begun and the stack
\* holds the first step's entry only
C20_Witness ==
    /\ pc = "handle_failure"
    /\ ~rollback_executed
    /\ Len(SuccessRecords) = 2
    /\ FailureRecords # << >>
    /\ Truthy(plan_steps[1].compensation)
    /\ ~Truthy(plan_steps[2].compensation)
    /\ Truthy(plan_steps[3].compensation)
    /\ Len(compensation_stack) = 1
    /\ compensation_stack[1].step_id = StepId(plan_steps[1], 0)
\* the run is in its failure handling, from the call of rollback on, or
\* has ended Failed
InFailureHandling == pc \in {"rolling_back", "rolled_back", "failed"}

\* C21: a run that ends Completed never invokes rollback and executes no
\* compensation; rollback is invoked, and compensations are executed, only
\* in the failure handling of a run that ends Failed; rollback is invoked
\* at most once per run; and once rollback has started no compensation is
\* registered: the stack stays as it is.
C21_RollbackOnlyOnFailure ==
    /\ [](/\ rollback_calls <= 1
          /\ pc = "completed" =>
                /\ rollback_calls = 0
                /\ ~rollback_executed
                /\ CompensationCalls = << >>
          /\ (rollback_calls > 0 \/ rollback_executed \/ CompensationCalls # << >>) =>
                InFailureHandling
          /\ CompensationCalls # << >> => rollback_executed /\ rollback_calls = 1)
    /\ [][rollback_executed => compensation_stack' = compensation_stack]_vars

\* the positions of the log holding an event of the given type
PositionsOf(type) == { i \in 1..Len(events) : events[i].type = type }

\* C22: the log of a run is GoalReceived, at most one PlanGenerated, then
\* for each executed step a ToolCallRequested immediately followed by the
\* ToolResultReceived of the same step id, then the terminal event.
\* PlanGenerated precedes every ToolCallRequested, every ToolResultReceived
\* directly follows the ToolCallRequested of its step, and there is at most
\* one failure record, which is the last event before WorkflowFailed.
C22_LogShape ==
    LET n == Len(events)
    IN  /\ PositionsOf("GoalReceived") = (IF n = 0 THEN {} ELSE {1})
        /\ PositionsOf("PlanGenerated") \subseteq {2}
        /\ \A i \in PositionsOf("ToolCallRequested") :
              /\ i >= 3
              /\ events[2].type = "PlanGenerated"
              /\ i < n => /\ events[i + 1].type = "ToolResultReceived"
                           /\ events[i + 1].step_id = events[i].step_id
                           /\ events[i + 1].tool_name = events[i].tool_name
              /\ i = n => pc \in {"executing", "record_success", "record_failure"}
        /\ \A i \in PositionsOf("ToolResultReceived") :
              /\ events[i - 1].type = "ToolCallRequested"
              /\ events[i - 1].step_id = events[i].step_id
              /\ ~events[i].success =>
                    /\ i >= n - 1
                    /\ i = n - 1 => events[n].type = "WorkflowFailed"
        /\ Len(FailureRecords) <= 1
        /\ PositionsOf("WorkflowCompleted") \cup PositionsOf("WorkflowFailed")
              \subseteq {n}
        /\ PositionsOf("WorkflowCompleted") # {} =>
              /\ FailureRecords = << >>
              /\ n = 3 + 2 * Len(plan_steps)
        /\ (PositionsOf("WorkflowFailed") # {} /\ PositionsOf("PlanGenerated") # {}) =>
              IsFailureRecord(events[n - 1])

====
